---------------------------- MODULE Spec2Model ----------------------------
(***************************************************************************)
(* A model of the FiberCop data mirror: the in-memory DataCache            *)
(* (app/cache.py), the ingestion cycle fetch_and_parse_data with its disk  *)
(* cache (app/fetcher.py), the alert sender (app/telegram.py) and the two  *)
(* places that start a cycle (app/main.py, lifespan).                      *)
(*                                                                         *)
(* Text is modelled as a tuple of one-character strings, so that the       *)
(* formatting and the parsing of file names are computed as the code       *)
(* computes them.  A date is a tuple <<year, month, day>>.                 *)
(***************************************************************************)
EXTENDS Integers, Sequences, FiniteSets, TLC

\* Python's None, for a value that is text, a date or a tuple otherwise
None == <<>>

\* Python's None where the empty text is a value too (a field of a record)
NoneField == <<"None">>

(***************************************************************************)
(* Text helpers.                                                           *)
(***************************************************************************)
DigitChars == <<"0", "1", "2", "3", "4", "5", "6", "7", "8", "9">>

IsDigit(ch) == \E i \in 1..10 : DigitChars[i] = ch

DigitVal(ch) == (CHOOSE i \in 1..10 : DigitChars[i] = ch) - 1

AllDigits(s) == \A i \in 1..Len(s) : IsDigit(s[i])

RECURSIVE ToInt(_)
ToInt(s) ==
    IF s = <<>> THEN 0
    ELSE 10 * ToInt(SubSeq(s, 1, Len(s) - 1)) + DigitVal(s[Len(s)])

\* n written in decimal on w digits, zero padded (strftime's %Y, %m, %d)
RECURSIVE Pad(_, _)
Pad(n, w) ==
    IF w = 0 THEN <<>>
    ELSE Pad(n \div 10, w - 1) \o <<DigitChars[(n % 10) + 1]>>

StartsWith(s, p) == Len(s) >= Len(p) /\ SubSeq(s, 1, Len(p)) = p

EndsWith(s, p) ==
    Len(s) >= Len(p) /\ SubSeq(s, Len(s) - Len(p) + 1, Len(s)) = p

\* str.replace(pat, ""): every occurrence of pat removed, left to right
RECURSIVE Remove(_, _)
Remove(s, pat) ==
    IF Len(s) < Len(pat) THEN s
    ELSE IF StartsWith(s, pat)
         THEN Remove(SubSeq(s, Len(pat) + 1, Len(s)), pat)
         ELSE <<s[1]>> \o Remove(Tail(s), pat)

\* re.search(r"(\d{8})", s): the leftmost run of 8 digits, or <<>> for no match
Search8Digits(s) ==
    LET starts == {i \in 1..(Len(s) - 7) : AllDigits(SubSeq(s, i, i + 7))}
    IN  IF starts = {} THEN <<>>
        ELSE LET i == CHOOSE k \in starts : \A j \in starts : k <= j
             IN  SubSeq(s, i, i + 7)

(***************************************************************************)
(* Dates.                                                                  *)
(***************************************************************************)
IsLeap(y) == (y % 4 = 0 /\ y % 100 # 0) \/ y % 400 = 0

DaysInMonth(y, m) ==
    IF m = 2 THEN (IF IsLeap(y) THEN 29 ELSE 28)
    ELSE IF m \in {4, 6, 9, 11} THEN 30 ELSE 31

\* datetime(year, month, day) raises ValueError outside these ranges
ValidDate(y, m, d) ==
    /\ y \in 1..9999
    /\ m \in 1..12
    /\ d \in 1..DaysInMonth(y, m)

DateLT(a, b) ==
    \/ a[1] < b[1]
    \/ a[1] = b[1] /\ a[2] < b[2]
    \/ a[1] = b[1] /\ a[2] = b[2] /\ a[3] < b[3]

NextDay(dt) ==
    IF dt[3] < DaysInMonth(dt[1], dt[2]) THEN <<dt[1], dt[2], dt[3] + 1>>
    ELSE IF dt[2] < 12 THEN <<dt[1], dt[2] + 1, 1>>
    ELSE <<dt[1] + 1, 1, 1>>

RECURSIVE AddDays(_, _)
AddDays(dt, k) == IF k = 0 THEN dt ELSE AddDays(NextDay(dt), k - 1)

\* the date given by the 8 digits YYYYMMDD, or None when datetime() raises
DateFromDigits(ds) ==
    LET y == ToInt(SubSeq(ds, 1, 4))
        m == ToInt(SubSeq(ds, 5, 6))
        d == ToInt(SubSeq(ds, 7, 8))
    IN  IF ValidDate(y, m, d) THEN <<y, m, d>> ELSE None

\* date.strftime('%Y-%m-%d')
Strftime(dt) == Pad(dt[1], 4) \o <<"-">> \o Pad(dt[2], 2) \o <<"-">> \o Pad(dt[3], 2)

\* the positions of "-" in s
Dashes(s) == {i \in 1..Len(s) : s[i] = "-"}

\* datetime.strptime(s, "%Y-%m-%d"): 4 digits, 1 or 2 digits, 1 or 2 digits,
\* a valid date; None stands for ValueError
Strptime(s) ==
    IF Cardinality(Dashes(s)) # 2 THEN None
    ELSE LET i  == CHOOSE k \in Dashes(s) : \A j \in Dashes(s) : k <= j
             j  == CHOOSE k \in Dashes(s) : k # i
             ys == SubSeq(s, 1, i - 1)
             ms == SubSeq(s, i + 1, j - 1)
             ds == SubSeq(s, j + 1, Len(s))
         IN  IF /\ Len(ys) = 4 /\ Len(ms) \in 1..2 /\ Len(ds) \in 1..2
                /\ AllDigits(ys) /\ AllDigits(ms) /\ AllDigits(ds)
                /\ ValidDate(ToInt(ys), ToInt(ms), ToInt(ds))
             THEN <<ToInt(ys), ToInt(ms), ToInt(ds)>>
             ELSE None

(***************************************************************************)
(* File names of the disk cache.                                           *)
(***************************************************************************)
FibercopPrefix == <<"f", "i", "b", "e", "r", "c", "o", "p", "_">>

CsvSuffix == <<".", "c", "s", "v">>

get_cache_filename(dt) == FibercopPrefix \o Strftime(dt) \o CsvSuffix

(***************************************************************************)
(* Payloads and records.  A payload (bytes) is modelled by what decoding   *)
(* and csv.DictReader see of it: whether it is valid UTF-8, its header     *)
(* line (the field names) and its data lines (each a tuple of field        *)
(* values).  b"" is the payload with no header and no line.                *)
(***************************************************************************)
EmptyBytes == [utf8 |-> TRUE, header |-> <<>>, rows |-> <<>>]

\* bytes.decode("utf-8") raises UnicodeDecodeError on these
DecodeFails(bytes) == ~bytes.utf8

\* one row of csv.DictReader: dict(zip(fieldnames, row)), a missing column
\* is restval = None (columns beyond the header are not in the model's inputs)
RowToRecord(header, row) ==
    [k \in {header[i] : i \in 1..Len(header)} |->
        LET i == CHOOSE j \in 1..Len(header) : header[j] = k
        IN  IF i <= Len(row) THEN row[i] ELSE NoneField]

\* list(csv.DictReader(io.StringIO(csv_content), delimiter=";")): empty
\* lines are skipped
ParseCsv(bytes) ==
    LET lines == SelectSeq(bytes.rows, LAMBDA r : r # <<>>)
    IN  [i \in 1..Len(lines) |-> RowToRecord(bytes.header, lines[i])]

\* record.get(key, default)
Get(record, key, default) ==
    IF key \in DOMAIN record THEN record[key] ELSE default

\* truth value of a field: None and "" are false
Truthy(v) == v # NoneField /\ v # <<>>

(***************************************************************************)
(* float(): a float is <<m, e>>, the number m / 10^e with no trailing      *)
(* zero in m; None stands for the ValueError or TypeError float() raises.  *)
(* The texts accepted are [+-]digits[.digits] with at least one digit.     *)
(***************************************************************************)
RECURSIVE Normalise(_, _)
Normalise(m, e) ==
    IF e > 0 /\ m % 10 = 0 THEN Normalise(m \div 10, e - 1) ELSE <<m, e>>

Float(v) ==
    IF v = NoneField \/ v = <<>> THEN None
    ELSE LET neg  == v[1] = "-"
             body == IF v[1] \in {"-", "+"} THEN Tail(v) ELSE v
             dots == {i \in 1..Len(body) : body[i] = "."}
         IN  IF Cardinality(dots) > 1 THEN None
             ELSE LET d    == IF dots = {} THEN Len(body) + 1
                              ELSE CHOOSE i \in dots : TRUE
                      ip   == SubSeq(body, 1, d - 1)
                      fp   == SubSeq(body, d + 1, Len(body))
                      mant == ToInt(ip \o fp)
                  IN  IF AllDigits(ip) /\ AllDigits(fp) /\ Len(ip) + Len(fp) > 0
                      THEN Normalise(IF neg THEN 0 - mant ELSE mant, Len(fp))
                      ELSE None

\* the default 0 of record.get("LATITUDINE", 0): float(0) is float("0")
ZeroText == <<"0">>

(***************************************************************************)
(* collections.Counter and dict: a tuple of <<key, value>> pairs in        *)
(* insertion order, each key once.                                         *)
(***************************************************************************)
Keys(d) == {d[i][1] : i \in 1..Len(d)}

\* d[k] = v: the value replaced in place, or the pair appended
DictSet(d, k, v) ==
    IF k \in Keys(d)
    THEN [i \in 1..Len(d) |-> IF d[i][1] = k THEN <<k, v>> ELSE d[i]]
    ELSE Append(d, <<k, v>>)

DictGet(d, k) ==
    IF k \in Keys(d) THEN (d[CHOOSE i \in 1..Len(d) : d[i][1] = k])[2] ELSE 0

\* counter[k] += 1
Incr(counter, k) == DictSet(counter, k, DictGet(counter, k) + 1)

\* the n first keys of the counter in insertion order, whatever their counts
first_inserted(counter, n) ==
    SubSeq(counter, 1, IF n < Len(counter) THEN n ELSE Len(counter))

\* Counter.most_common(n): by count, largest first, equal counts in
\* insertion order; the n first
RECURSIVE most_common(_, _)
most_common(counter, n) ==
    IF n = 0 \/ counter = <<>> THEN <<>>
    ELSE LET best == CHOOSE i \in 1..Len(counter) :
                        /\ \A j \in 1..Len(counter) : counter[j][2] <= counter[i][2]
                        /\ \A j \in 1..(i - 1) : counter[j][2] < counter[i][2]
             rest == [j \in 1..(Len(counter) - 1) |->
                        IF j < best THEN counter[j] ELSE counter[j + 1]]
         IN  <<counter[best]>> \o most_common(rest, n - 1)

RECURSIVE SumCounts(_)
SumCounts(d) == IF d = <<>> THEN 0 ELSE d[1][2] + SumCounts(Tail(d))

\* most_common(20) in build_derived_data
TopProvinces == 20

OtherKey == <<"O", "T", "H", "E", "R">>

CRO == <<"C", "R", "O">>

(***************************************************************************)
(* DataCache.build_derived_data, the part before the lock: the views of    *)
(* parsed_data, or None when a float() of the loop raises.                 *)
(***************************************************************************)
\* float(record.get(key, 0)) or 0
Coordinate(record, key) == Float(Get(record, key, ZeroText))

BuildFails(parsed_data) ==
    \E i \in 1..Len(parsed_data) :
        \/ Coordinate(parsed_data[i], "LATITUDINE") = None
        \/ Coordinate(parsed_data[i], "LONGITUDINE") = None

\* the counter of the non-empty values of one field, after records 1..n
RECURSIVE CountField(_, _, _)
CountField(parsed_data, key, n) ==
    IF n = 0 THEN <<>>
    ELSE LET before == CountField(parsed_data, key, n - 1)
             v      == Get(parsed_data[n], key, <<>>)
         IN  IF Truthy(v) THEN Incr(before, v) ELSE before

\* availability_years: avail_date[:4] of the values of length >= 4
RECURSIVE CountYears(_, _)
CountYears(parsed_data, n) ==
    IF n = 0 THEN <<>>
    ELSE LET before == CountYears(parsed_data, n - 1)
             v      == Get(parsed_data[n], "DATA_DISPONIBILITA", <<>>)
         IN  IF Truthy(v) /\ Len(v) >= 4
             THEN Incr(before, SubSeq(v, 1, 4))
             ELSE before

ByProvincia(parsed_data) ==
    LET province_counter == CountField(parsed_data, "PROVINCIA", Len(parsed_data))
        top_provinces    == most_common(province_counter, TopProvinces)
        other_count      ==
            SumCounts(SelectSeq(province_counter,
                                LAMBDA kv : kv[1] \notin Keys(top_provinces)))
    IN  IF other_count > 0
        THEN DictSet(top_provinces, OtherKey, other_count)
        ELSE top_provinces

build_derived_data(parsed_data) ==
    IF BuildFails(parsed_data) THEN None
    ELSE
    [list_data |->
        [i \in 1..Len(parsed_data) |->
            [id   |-> i - 1,
             lat  |-> Coordinate(parsed_data[i], "LATITUDINE"),
             lon  |-> Coordinate(parsed_data[i], "LONGITUDINE"),
             type |-> Get(parsed_data[i], "TIPO", <<>>)]],
     listmap_data |->
        [i \in 1..Len(parsed_data) |->
            <<i - 1,
              Coordinate(parsed_data[i], "LATITUDINE"),
              Coordinate(parsed_data[i], "LONGITUDINE"),
              IF Get(parsed_data[i], "TIPO", <<>>) = CRO THEN 0 ELSE 1>>],
     details_map |-> [i \in 0..(Len(parsed_data) - 1) |-> parsed_data[i + 1]],
     stats |->
        [total                |-> Len(parsed_data),
         by_provincia         |-> ByProvincia(parsed_data),
         by_tipo              |-> CountField(parsed_data, "TIPO", Len(parsed_data)),
         by_stato             |-> CountField(parsed_data, "STATO", Len(parsed_data)),
         by_availability_year |-> CountYears(parsed_data, Len(parsed_data))]]

(***************************************************************************)
(* The inputs of the model: payloads, remote responses, initial disks.     *)
(***************************************************************************)
Header6 == <<"PROVINCIA", "TIPO", "LATITUDINE", "LONGITUDINE", "STATO",
             "DATA_DISPONIBILITA">>

CNO == <<"C", "N", "O">>

\* MILANO;CRO;45.1;9.2;DISPONIBILE;20230601
RowMilano == << <<"M", "I", "L", "A", "N", "O">>, CRO, <<"4", "5", ".", "1">>,
                <<"9", ".", "2">>, <<"D", "I", "S", "P">>,
                <<"2", "0", "2", "3", "0", "6", "0", "1">> >>

\* ROMA;CNO;41.9;12.5;;2024
RowRoma == << <<"R", "O", "M", "A">>, CNO, <<"4", "1", ".", "9">>,
              <<"1", "2", ".", "5">>, <<>>, <<"2", "0", "2", "4">> >>

\* ;CNO;;;;
RowBlank == << <<>>, CNO, <<>>, <<>>, <<>>, <<>> >>

GoodBytes == [utf8 |-> TRUE, header |-> Header6, rows |-> <<RowMilano, RowRoma>>]

OneBytes == [utf8 |-> TRUE, header |-> Header6, rows |-> <<RowRoma>>]

\* the payload of the end-to-end scenario: its second line has empty coordinates
BlankBytes == [utf8 |-> TRUE, header |-> Header6, rows |-> <<RowMilano, RowBlank>>]

BadUtf8Bytes == [utf8 |-> FALSE, header |-> <<>>, rows |-> <<>>]

\* the first wall-clock day of a run
FirstDay == <<2024, 1, 3>>

\* the number of days after FirstDay a run goes on
MaxDays == 1

\* the number of times the scheduler fires in a run
MaxCronRuns == 1

\* datetime.now() is modelled to the day: the clock counts the days since FirstDay
Today(t) == AddDays(FirstDay, t)

DataPrefix == <<"d", "a", "t", "a", "_">>

\* an archive member named data_YYYYMMDD.csv
DataName(dt) == DataPrefix \o Pad(dt[1], 4) \o Pad(dt[2], 2) \o Pad(dt[3], 2) \o CsvSuffix

NotesName == <<"n", "o", "t", "e", "s">> \o CsvSuffix

ReadmeName == <<"r", "e", "a", "d", "m", "e", ".", "t", "x", "t">>

Member(name, bytes) == [name |-> name, bytes |-> bytes]

Archive(members) == [ok |-> TRUE, members |-> members]

\* bytes zipfile.ZipFile rejects (BadZipFile)
CorruptArchive == [ok |-> FALSE, members |-> <<>>]

Archives ==
    { Archive(<<Member(DataName(<<2024, 1, 2>>), GoodBytes)>>),
      Archive(<<Member(NotesName, GoodBytes),
                Member(DataName(<<2024, 1, 3>>), OneBytes),
                Member(DataName(<<2024, 1, 2>>), OneBytes)>>),
      Archive(<<Member(DataName(<<2024, 1, 3>>), BlankBytes)>>),
      Archive(<<Member(ReadmeName, GoodBytes)>>),
      Archive(<<Member(DataName(<<2024, 1, 2>>), BadUtf8Bytes)>>) }

\* what the GET of ARCHIVE_URL gives: a body, a non-2xx status, or no answer
Responses ==
    {[kind |-> "body", zip |-> a] : a \in Archives}
        \cup {[kind |-> "status", zip |-> CorruptArchive]}

\* a directory as a function from file name to content
NoFiles == <<>>

WithFile(d, name, bytes) ==
    [n \in DOMAIN d \cup {name} |-> IF n = name THEN bytes ELSE d[n]]

Without(d, names) == [n \in DOMAIN d \ names |-> d[n]]

JunkName == FibercopPrefix \o <<"o", "l", "d">> \o CsvSuffix

\* CACHE_DIR as a run may find it
InitialDisks ==
    { NoFiles,
      WithFile(WithFile(WithFile(NoFiles,
          get_cache_filename(<<2024, 1, 2>>), OneBytes),
          get_cache_filename(<<2024, 1, 3>>), GoodBytes),
          JunkName, EmptyBytes) }

(***************************************************************************)
(* DataCache: the object's fields as one record, its methods as operators  *)
(* from the fields before to the fields after.                             *)
(***************************************************************************)
NoStats == [total |-> -1, by_provincia |-> <<>>, by_tipo |-> <<>>,
            by_stato |-> <<>>, by_availability_year |-> <<>>, updated_at |-> <<>>]

\* DataCache.__init__ ; stats_data = {} is NoStats
NewCache ==
    [latest_date |-> None, parsed_data |-> <<>>, raw_csv_bytes |-> EmptyBytes,
     original_filename |-> <<>>, last_fetch_time |-> None, fetch_status |-> "none",
     last_error |-> None, list_data |-> <<>>, listmap_data |-> <<>>,
     details_map |-> <<>>, stats_data |-> NoStats]

\* the body of set_fetching's "with self._lock"
set_fetching(ch) == [ch EXCEPT !.fetch_status = "fetching"]

\* a set_error that drops the records it can no longer vouch for
set_error_clearing(ch, error, t) ==
    [ch EXCEPT !.last_fetch_time = <<t>>, !.fetch_status = "error",
               !.last_error = error, !.parsed_data = <<>>]

\* the body of set_error's "with self._lock"; t is datetime.now()
set_error(ch, error, t) ==
    [ch EXCEPT !.last_fetch_time = <<t>>, !.fetch_status = "error", !.last_error = error]

\* the body of update's "with self._lock"
update(ch, latest_date, parsed_data, raw_csv_bytes, original_filename, t) ==
    [ch EXCEPT !.latest_date = latest_date, !.parsed_data = parsed_data,
               !.raw_csv_bytes = raw_csv_bytes,
               !.original_filename = original_filename,
               !.last_fetch_time = <<t>>, !.fetch_status = "success",
               !.last_error = None]

\* a publication that adds the entries of this build to those already held
publish_derived_extending(ch, views, t) ==
    [ch EXCEPT !.list_data = @ \o views.list_data,
               !.listmap_data = @ \o views.listmap_data,
               !.details_map = views.details_map,
               !.stats_data = [total |-> views.stats.total,
                               by_provincia |-> views.stats.by_provincia,
                               by_tipo |-> views.stats.by_tipo,
                               by_stato |-> views.stats.by_stato,
                               by_availability_year |-> views.stats.by_availability_year,
                               updated_at |-> <<t>>]]

\* the body of build_derived_data's "with self._lock"
publish_derived(ch, views, t) ==
    [ch EXCEPT !.list_data = views.list_data, !.listmap_data = views.listmap_data,
               !.details_map = views.details_map,
               !.stats_data = [total |-> views.stats.total,
                               by_provincia |-> views.stats.by_provincia,
                               by_tipo |-> views.stats.by_tipo,
                               by_stato |-> views.stats.by_stato,
                               by_availability_year |-> views.stats.by_availability_year,
                               updated_at |-> <<t>>]]

\* what each getter returns
Getters == {"get_data", "get_csv", "get_list_data", "get_listmap_data",
            "get_detail_by_id", "get_stats"}

\* get_detail_by_id is called with id 0
GetterResult(ch, op) ==
    CASE op = "get_data" -> <<ch.latest_date, ch.last_fetch_time, ch.fetch_status,
                              ch.parsed_data>>
      [] op = "get_csv" -> <<ch.raw_csv_bytes, ch.original_filename>>
      [] op = "get_list_data" -> <<ch.list_data>>
      [] op = "get_listmap_data" -> <<ch.listmap_data>>
      [] op = "get_detail_by_id" ->
            IF 0 \in DOMAIN ch.details_map THEN <<ch.details_map[0]>> ELSE None
      [] op = "get_stats" -> <<ch.stats_data>>

(***************************************************************************)
(* The disk cache of fetcher.py.                                           *)
(***************************************************************************)
\* a lookup that never finds the file
load_csv_from_disk_missing(d, dt, readOk) == None

\* load_csv_from_disk: None for a missing file and for a failed read
load_csv_from_disk(d, dt, readOk) ==
    LET cache_file == get_cache_filename(dt)
    IN  IF cache_file \notin DOMAIN d THEN None
        ELSE IF readOk THEN <<d[cache_file], cache_file>>
        ELSE None

\* the files cleanup_old_cache removes when nothing fails
OldFiles(d, current_date) ==
    {filename \in DOMAIN d :
        /\ StartsWith(filename, FibercopPrefix)
        /\ LET cache_date == Strptime(Remove(Remove(filename, FibercopPrefix), CsvSuffix))
           IN  cache_date # None /\ DateLT(cache_date, current_date)}

\* cleanup_old_cache: os.listdir gives the files in any order and a failing
\* os.remove ends the loop, so any part of the old files may be gone
cleanup_old_cache(d, current_date) ==
    {Without(d, gone) : gone \in SUBSET OldFiles(d, current_date)}

\* what a write that fails part-way leaves of the payload
Truncations(bytes) ==
    {EmptyBytes} \cup
    {[bytes EXCEPT !.rows = SubSeq(bytes.rows, 1, k)] : k \in 1..(Len(bytes.rows) - 1)}

\* save_csv_to_disk: the directories it may leave.  how is "written" (then
\* cleanup runs), "refused" (makedirs or open failed) or "torn" (the write
\* failed after open(..., "wb") created the file)
save_csv_to_disk(d, dt, csv_bytes, how) ==
    LET cache_file == get_cache_filename(dt)
    IN  CASE how = "written" -> cleanup_old_cache(WithFile(d, cache_file, csv_bytes), dt)
          [] how = "refused" -> {d}
          [] how = "torn"    -> {WithFile(d, cache_file, t) : t \in Truncations(csv_bytes)}

\* a save_csv_to_disk without its try: a failed write raises
save_csv_to_disk_unguarded(how) == how # "written"

\* whether save_csv_to_disk lets an exception out: its try catches them all
save_csv_to_disk_raises(how) == FALSE

(***************************************************************************)
(* fetch_and_parse_data: the steps between two points where the cycle can  *)
(* be seen from outside (a lock acquisition, an await, its return).        *)
(***************************************************************************)
\* error_msg = f"Failed to fetch/parse data: {str(e)}"
ErrorPrefix == "Failed to fetch/parse data: "

\* an error message that is str(e) alone
ErrorMsgBare(detail) == <<"", detail>>

ErrorMsg(detail) == <<ErrorPrefix, detail>>

NoCsvDetail == "No CSV file with 8-digit date found in archive"

\* what a step hands to the next: error is "" or str(e) of the exception
Outcome(error, csv_filename, csv_bytes, latest_date, parsed_data) ==
    [error |-> error, csv_filename |-> csv_filename, csv_bytes |-> csv_bytes,
     latest_date |-> latest_date, parsed_data |-> parsed_data]

Raised(detail) == Outcome(detail, <<>>, EmptyBytes, None, <<>>)

\* lines 85-100: the cycle served from the disk cache
IngestFromDisk(cached_data, today) ==
    LET csv_bytes    == cached_data[1]
        csv_filename == cached_data[2]
        date_match   == Search8Digits(csv_filename)
    IN  IF DecodeFails(csv_bytes) THEN Raised("'utf-8' codec can't decode")
        ELSE IF date_match = <<>>
        THEN Outcome("", csv_filename, csv_bytes, today, ParseCsv(csv_bytes))
        ELSE IF DateFromDigits(date_match) = None
        THEN Raised("day is out of range for month")
        ELSE Outcome("", csv_filename, csv_bytes, DateFromDigits(date_match),
                     ParseCsv(csv_bytes))

\* lines 134-145: the members the loop stops at
DatedCsvMembers(zip) ==
    {i \in 1..Len(zip.members) :
        /\ EndsWith(zip.members[i].name, CsvSuffix)
        /\ Search8Digits(zip.members[i].name) # <<>>}

\* a loop without its break: the last such member is the one kept
LastDatedCsv(zip) ==
    CHOOSE k \in DatedCsvMembers(zip) : \A j \in DatedCsvMembers(zip) : k >= j

\* lines 134-145: the loop breaks at the first such member of namelist()
FirstDatedCsv(zip) ==
    CHOOSE k \in DatedCsvMembers(zip) : \A j \in DatedCsvMembers(zip) : k <= j

\* lines 123-152: the cycle served from the remote archive
IngestFromRemote(resp) ==
    IF resp.kind = "neterr" THEN Raised("Cannot connect to host")
    ELSE IF resp.kind = "status" THEN Raised("500, message='Internal Server Error'")
    ELSE IF ~resp.zip.ok THEN Raised("File is not a zip file")
    ELSE IF DatedCsvMembers(resp.zip) = {} THEN Raised(NoCsvDetail)
    ELSE LET m == resp.zip.members[FirstDatedCsv(resp.zip)]
             latest_date == DateFromDigits(Search8Digits(m.name))
         IN  IF latest_date = None THEN Raised("day is out of range for month")
             ELSE IF m.bytes = EmptyBytes THEN Raised(NoCsvDetail)
             ELSE IF DecodeFails(m.bytes) THEN Raised("'utf-8' codec can't decode")
             ELSE Outcome("", m.name, m.bytes, latest_date, ParseCsv(m.bytes))

\* line 155: the date save_csv_to_disk is called with
SaveDate(l) == l.today

\* a send_telegram_alert without its try: a failed delivery raises
send_telegram_alert_unguarded(delivered) == ~delivered

\* send_telegram_alert: whether a failed delivery lets an exception out
send_telegram_alert_raises(delivered) == FALSE

\* the two callers of fetch_and_parse_data: lifespan, and the scheduler's job.
\* Both are coroutines of one event loop: one runs until it suspends (await)
\* or returns, and only then does the other
Cycles == {"startup", "cron"}

\* the callers of the getters: DataCache guards its fields with a
\* threading.Lock, so a reader is a thread of its own, free to run whenever
\* the lock is free
Readers == {"reader"}

VARIABLES
    cache,       \* the fields of the DataCache object
    lock,        \* cache._lock: "free" or who holds it
    disk,        \* CACHE_DIR
    clock,       \* datetime.now(), in days since FirstDay
    configured,  \* TELEGRAM_BOT_TOKEN and TELEGRAM_CHAT_ID are both set
    started,     \* lifespan has started the scheduler
    cronRuns,    \* how often the scheduler has fired
    cronDay,     \* the day it fired last, None before
    running,     \* the coroutine the event loop is running, or "none"
    pc,          \* where each cycle is
    loc,         \* the local variables of each cycle
    hist,        \* what each cycle has done so far (history)
    reader,      \* where each reader thread is: "idle", or "locked" in a getter
    records,     \* the argument of the direct calls of build_derived_data
    returned     \* what each direct call of build_derived_data has left, in order

\* the variables of the direct calls of build_derived_data; a run of the
\* service makes no such call and leaves them alone
direct == <<records, returned>>

vars == <<cache, lock, disk, clock, configured, started, cronRuns, cronDay,
          running,
          pc, loc, hist, reader, direct>>

\* what readers can obtain as data
Data(ch) ==
    <<ch.latest_date, ch.parsed_data, ch.raw_csv_bytes, ch.original_filename,
      ch.list_data, ch.listmap_data, ch.details_map, ch.stats_data>>

NoLocals ==
    [today |-> None, path |-> "none", error_msg |-> None, csv_filename |-> <<>>,
     csv_bytes |-> EmptyBytes, latest_date |-> None, parsed_data |-> <<>>]

NoHistory ==
    [changed |-> FALSE, writes |-> <<>>, alerts |-> <<>>, readFailed |-> FALSE,
     dataDate |-> None, saved |-> "no", cleanupFailed |-> FALSE, savedDate |-> None,
     alertFailed |-> FALSE, outcome |-> "none", exit |-> "none",
     overlapped |-> FALSE]

Init ==
    /\ cache = NewCache
    /\ lock = "free"
    /\ disk \in InitialDisks
    /\ clock = 0
    /\ configured \in BOOLEAN
    /\ started = FALSE
    /\ cronRuns = 0
    /\ cronDay = None
    /\ running = "none"
    /\ pc = [c \in Cycles |-> "idle"]
    /\ loc = [c \in Cycles |-> NoLocals]
    /\ hist = [c \in Cycles |-> NoHistory]
    /\ reader = [r \in Readers |-> "idle"]
    /\ records = <<>>
    /\ returned = <<>>

InFlight(c) == pc[c] \notin {"idle", "done"}

\* cycle c starts: fetch_and_parse_data is entered.  The history of a cycle is
\* kept from its start until the next cycle starts after it has returned
Enter(c) ==
    /\ pc' = [pc EXCEPT ![c] = "set_fetching"]
    /\ loc' = [loc EXCEPT ![c] = NoLocals]
    /\ hist' = [h \in Cycles |->
                  IF h = c
                  THEN [NoHistory EXCEPT
                            !.overlapped = \E o \in Cycles \ {c} : InFlight(o)]
                  ELSE IF InFlight(h) THEN [hist[h] EXCEPT !.overlapped = TRUE]
                  ELSE NoHistory]
    /\ running' = c

\* lifespan, lines 44-51: the scheduler is started, then the first cycle is awaited
Lifespan ==
    /\ ~started
    /\ started' = TRUE
    /\ Enter("startup")
    /\ UNCHANGED <<cache, lock, disk, clock, configured, direct, cronRuns, cronDay, reader>>

\* line 47: the scheduler's job fires, once a day at FETCH_TIME (the
\* scheduler runs one instance of its job at a time)
CronTrigger ==
    /\ started
    /\ running = "none"
    /\ pc["cron"] \in {"idle", "done"}
    /\ cronRuns < MaxCronRuns
    /\ cronDay # <<clock>>
    /\ cronRuns' = cronRuns + 1
    /\ cronDay' = <<clock>>
    /\ Enter("cron")
    /\ UNCHANGED <<cache, lock, disk, clock, configured, direct, started, reader>>

\* the "with self._lock" each waiting step is about to enter
LockedPc(p) ==
    CASE p = "set_fetching" -> "set_fetching_locked"
      [] p = "update"       -> "update_locked"
      [] p = "publish"      -> "publish_locked"
      [] p = "set_error"    -> "set_error_locked"
      [] p = "get"          -> "get_locked"

\* an update that calls build_derived_data inside its "with self._lock"
LockDuringBuild_held(c) == c

\* update, lines 29-37: the "with self._lock" block ends at line 36 and
\* build_derived_data is called after it, so the build runs with the lock free
LockDuringBuild(c) == "free"

\* cycle c takes the cache lock
Acquire(c) ==
    /\ running = c
    /\ pc[c] \in {"set_fetching", "update", "publish", "set_error"}
    /\ lock = "free"
    /\ lock' = c
    /\ pc' = [pc EXCEPT ![c] = LockedPc(pc[c])]
    /\ UNCHANGED <<cache, disk, clock, configured, direct, started, cronRuns, cronDay, running,
                   loc, hist, reader>>

\* line 79, cache.set_fetching()
SetFetchingBody(c) ==
    /\ running = c
    /\ pc[c] = "set_fetching_locked"
    /\ cache' = set_fetching(cache)
    /\ lock' = "free"
    /\ pc' = [pc EXCEPT ![c] = "load_disk"]
    /\ hist' = [hist EXCEPT ![c].writes = Append(@, "fetching")]
    /\ UNCHANGED <<disk, clock, configured, direct, started, cronRuns, cronDay, running, loc,
                   reader>>

\* the except block up to cache.set_error, lines 160-163
Except(c, l, detail) ==
    /\ pc' = [pc EXCEPT ![c] = "set_error"]
    /\ loc' = [loc EXCEPT ![c] = [l EXCEPT !.error_msg = ErrorMsg(detail)]]

\* the locals after a step that parsed a payload, up to cache.update
Parsed(c, l, o) ==
    IF o.error # ""
    THEN Except(c, l, o.error)
    ELSE /\ pc' = [pc EXCEPT ![c] = "update"]
         /\ loc' = [loc EXCEPT ![c] =
                      [l EXCEPT !.csv_filename = o.csv_filename,
                                !.csv_bytes = o.csv_bytes,
                                !.latest_date = o.latest_date,
                                !.parsed_data = o.parsed_data]]

\* lines 82-100 and 108-124: the disk lookup, then either the parse of the
\* cached payload or the request, which suspends the cycle
LoadDisk(c) ==
    /\ running = c
    /\ pc[c] = "load_disk"
    /\ \E readOk \in BOOLEAN :
         LET today       == Today(clock)
             cached_data == load_csv_from_disk(disk, today, readOk)
             l           == [loc[c] EXCEPT !.today = today]
         IN  /\ hist' = [hist EXCEPT ![c].readFailed =
                            get_cache_filename(today) \in DOMAIN disk /\ ~readOk]
             /\ IF cached_data # None
                THEN /\ Parsed(c, [l EXCEPT !.path = "disk"],
                               IngestFromDisk(cached_data, today))
                     /\ running' = running
                ELSE /\ pc' = [pc EXCEPT ![c] = "fetching"]
                     /\ loc' = [loc EXCEPT ![c] = [l EXCEPT !.path = "remote"]]
                     /\ running' = "none"
    /\ UNCHANGED <<cache, lock, disk, clock, configured, direct, started, cronRuns, cronDay,
                   reader>>

\* lines 124-152: the response arrives, the archive is opened and parsed
FetchReturn(c) ==
    /\ running = "none"
    /\ pc[c] = "fetching"
    /\ running' = c
    /\ \E resp \in Responses : Parsed(c, loc[c], IngestFromRemote(resp))
    /\ UNCHANGED <<cache, lock, disk, clock, configured, direct, started, cronRuns, cronDay,
                   hist, reader>>

\* cache.update, lines 29-36
UpdateBody(c) ==
    /\ running = c
    /\ pc[c] = "update_locked"
    /\ cache' = update(cache, loc[c].latest_date, loc[c].parsed_data,
                       loc[c].csv_bytes, loc[c].csv_filename, clock)
    /\ lock' = LockDuringBuild(c)
    /\ pc' = [pc EXCEPT ![c] = "build"]
    /\ hist' = [hist EXCEPT ![c].writes = Append(@, "success"),
                            ![c].changed = @ \/ Data(cache') # Data(cache),
                            ![c].dataDate = loc[c].latest_date]
    /\ UNCHANGED <<disk, clock, configured, direct, started, cronRuns, cronDay, running, loc,
                   reader>>

\* build_derived_data, lines 50-105: the views are computed, or float() raises
Build(c) ==
    /\ running = c
    /\ pc[c] = "build"
    /\ IF BuildFails(loc[c].parsed_data)
       THEN Except(c, loc[c], "could not convert string to float")
       ELSE /\ pc' = [pc EXCEPT ![c] = "publish"]
            /\ loc' = loc
    /\ UNCHANGED <<cache, lock, disk, clock, configured, direct, started, cronRuns, cronDay,
                   running, hist, reader>>

\* fetch_and_parse_data returns
Return(c, h, outcome, exit) ==
    /\ pc' = [pc EXCEPT ![c] = "done"]
    /\ loc' = [loc EXCEPT ![c] = NoLocals]
    /\ hist' = [hist EXCEPT ![c] = [h EXCEPT !.outcome = outcome, !.exit = exit]]
    /\ running' = "none"

\* build_derived_data, lines 107-118; the disk path then returns (line 106)
PublishBody(c) ==
    /\ running = c
    /\ pc[c] = "publish_locked"
    /\ cache' = publish_derived(cache, build_derived_data(loc[c].parsed_data), clock)
    /\ lock' = "free"
    /\ LET h == [hist[c] EXCEPT !.changed = @ \/ Data(cache') # Data(cache)]
       IN  IF loc[c].path = "disk"
           THEN Return(c, h, "success", "returned")
           ELSE /\ pc' = [pc EXCEPT ![c] = "save"]
                /\ hist' = [hist EXCEPT ![c] = h]
                /\ UNCHANGED <<running, loc>>
    /\ UNCHANGED <<disk, clock, configured, direct, started, cronRuns, cronDay, reader>>

\* line 155, save_csv_to_disk(today, csv_bytes), and the return
Save(c) ==
    /\ running = c
    /\ pc[c] = "save"
    /\ \E how \in {"written", "refused", "torn"} :
         \E d \in save_csv_to_disk(disk, SaveDate(loc[c]), loc[c].csv_bytes, how) :
           LET h == [hist[c] EXCEPT
                        !.saved = how,
                        !.savedDate = SaveDate(loc[c]),
                        !.cleanupFailed =
                            /\ how = "written"
                            /\ OldFiles(d, SaveDate(loc[c])) # {}]
           IN  /\ disk' = d
               /\ IF save_csv_to_disk_raises(how)
                  THEN /\ Except(c, loc[c], "[Errno 28] No space left on device")
                       /\ hist' = [hist EXCEPT ![c] = h]
                       /\ running' = running
                  ELSE Return(c, h, "success", "returned")
    /\ UNCHANGED <<cache, lock, clock, configured, direct, started, cronRuns, cronDay, reader>>

\* line 163, cache.set_error(error_msg)
SetErrorBody(c) ==
    /\ running = c
    /\ pc[c] = "set_error_locked"
    /\ cache' = set_error(cache, loc[c].error_msg, clock)
    /\ lock' = "free"
    /\ pc' = [pc EXCEPT ![c] = "alert"]
    /\ hist' = [hist EXCEPT ![c].writes = Append(@, "error")]
    /\ UNCHANGED <<disk, clock, configured, direct, started, cronRuns, cronDay, running, loc,
                   reader>>

\* line 164 and telegram.py 9-18: send_telegram_alert is entered; without a
\* token or chat id it returns at once, else the request suspends the cycle
Alert(c) ==
    /\ running = c
    /\ pc[c] = "alert"
    /\ LET h == [hist[c] EXCEPT !.alerts =
                    Append(@, [message |-> loc[c].error_msg,
                               last_error |-> cache.last_error,
                               fetch_status |-> cache.fetch_status])]
       IN  IF ~configured
           THEN Return(c, h, "error", "returned")
           ELSE /\ pc' = [pc EXCEPT ![c] = "alert_wait"]
                /\ hist' = [hist EXCEPT ![c] = h]
                /\ running' = "none"
                /\ loc' = loc
    /\ UNCHANGED <<cache, lock, disk, clock, configured, direct, started, cronRuns, cronDay, reader>>

\* telegram.py 18-28: the request is answered, or fails
AlertReturn(c) ==
    /\ running = "none"
    /\ pc[c] = "alert_wait"
    /\ \E delivered \in BOOLEAN :
         Return(c, [hist[c] EXCEPT !.alertFailed = ~delivered], "error",
                IF ~delivered /\ send_telegram_alert_raises(delivered)
                THEN "raised" ELSE "returned")
    /\ UNCHANGED <<cache, lock, disk, clock, configured, direct, started, cronRuns, cronDay, reader>>

\* a reader thread enters a getter's "with self._lock"
ReaderAcquire(r) ==
    /\ reader[r] = "idle"
    /\ lock = "free"
    /\ lock' = r
    /\ reader' = [reader EXCEPT ![r] = "locked"]
    /\ UNCHANGED <<cache, disk, clock, configured, direct, started, cronRuns, cronDay, running,
                   pc, loc, hist>>

\* the getter returns: GetterResult(cache, op) for the getter op it is
ReaderReturn(r) ==
    /\ reader[r] = "locked"
    /\ lock = r
    /\ lock' = "free"
    /\ reader' = [reader EXCEPT ![r] = "idle"]
    /\ UNCHANGED <<cache, disk, clock, configured, direct, started, cronRuns, cronDay, running,
                   pc, loc, hist>>

\* midnight passes; the steps a cycle makes without suspending take no time
Tick ==
    /\ running = "none"
    /\ clock < MaxDays
    /\ clock' = clock + 1
    /\ UNCHANGED <<cache, lock, disk, configured, direct, started, cronRuns, cronDay,
                   running, pc, loc, hist, reader>>

Next ==
    \/ Lifespan
    \/ CronTrigger
    \/ \E c \in Cycles :
         \/ Acquire(c)
         \/ SetFetchingBody(c)
         \/ LoadDisk(c)
         \/ FetchReturn(c)
         \/ UpdateBody(c)
         \/ Build(c)
         \/ PublishBody(c)
         \/ Save(c)
         \/ SetErrorBody(c)
         \/ Alert(c)
         \/ AlertReturn(c)
    \/ \E r \in Readers : ReaderAcquire(r) \/ ReaderReturn(r)
    \/ Tick

Spec == Init /\ [][Next]_vars

(***************************************************************************)
(* The service with its end: lifespan's scheduler.shutdown().              *)
(***************************************************************************)
\* main.py line 55, scheduler.shutdown(), once the application has run: the
\* scheduler fires no more, and the job it is running is cancelled at the
\* await it is suspended in.  asyncio.CancelledError is no Exception: the
\* except of fetcher.py line 160 (and of telegram.py line 27) lets it through
\* and the call ends there, with no further write to the cache
Shutdown ==
    /\ started
    /\ pc["startup"] = "done"
    /\ running = "none"
    /\ pc["cron"] \in {"fetching", "alert_wait"}
    /\ pc' = [pc EXCEPT !["cron"] = "cancelled"]
    /\ loc' = [loc EXCEPT !["cron"] = NoLocals]
    /\ hist' = [hist EXCEPT !["cron"].exit = "cancelled"]
    /\ UNCHANGED <<cache, lock, disk, clock, configured, direct, started, cronRuns,
                   cronDay, running, reader>>

ShutdownNext ==
    \/ Next
    \/ Shutdown

SpecShutdown == Init /\ [][ShutdownNext]_vars

(***************************************************************************)
(* build_derived_data called directly, as a caller that holds a DataCache  *)
(* calls it: on a new cache, up to MaxCalls times with the same records,   *)
(* with time going on between the calls.                                   *)
(***************************************************************************)
\* the number of direct calls in a run
MaxCalls == 2

ProvinceName(i) == <<"P">> \o Pad(i, 2)

\* the record of the line prov;CNO;1;2;;
ProvinceRecord(prov) ==
    RowToRecord(Header6, <<prov, CNO, <<"1">>, <<"2">>, <<>>, <<>> >>)

\* one record of each of the provinces P01..Pn, then one of each of more
ProvinceRecords(n, more) ==
    [i \in 1..n |-> ProvinceRecord(ProvinceName(i))]
        \o [i \in 1..Len(more) |-> ProvinceRecord(more[i])]

\* the record of the line MILANO;CRO;lat;9.2;;
LatitudeRecord(lat) ==
    RowToRecord(Header6, << <<"M", "I", "L", "A", "N", "O">>, CRO, lat,
                            <<"9", ".", "2">>, <<>>, <<>> >>)

\* records as csv.DictReader gives them: of the payloads, with a latitude that
\* is numeric text of several forms, text that is no number, absent from the
\* header, or None (a line shorter than the header)
CoordinateInputs ==
    {ParseCsv(b) : b \in {EmptyBytes, GoodBytes, OneBytes, BlankBytes}}
        \cup {<<LatitudeRecord(lat)>> :
                lat \in {<<"-", "0", ".", "5", "0">>, <<"+", "7">>, <<"0">>,
                         <<".", "5">>, <<"a", "b", "c">>, <<"4", "5", ",", "1">>}}
        \cup {<<ProvinceRecord(<<>>),
                RowToRecord(<<"PROVINCIA", "TIPO">>, <<ProvinceName(1), CRO>>)>>,
              <<RowToRecord(Header6, <<ProvinceName(1), CRO>>)>>}

\* records of up to TopProvinces + 2 provinces: each once; the last one again
\* and a record of no province; a province written OTHER among them
ProvinceInputs ==
    {ProvinceRecords(n, more) :
        n \in (TopProvinces - 1)..(TopProvinces + 2),
        more \in {<<>>, <<ProvinceName(TopProvinces + 2), <<>>,
                          ProvinceName(TopProvinces + 2)>>,
                  <<OtherKey, OtherKey>>}}
        \cup {ProvinceRecords(n, <<OtherKey>>) : n \in {0, 1}}

BuildInputs == CoordinateInputs \cup ProvinceInputs

\* the views a call has left in the cache
Views(ch) ==
    [list_data |-> ch.list_data, listmap_data |-> ch.listmap_data,
     details_map |-> ch.details_map, stats_data |-> ch.stats_data]

BuildInit ==
    /\ cache = NewCache
    /\ lock = "free"
    /\ disk = NoFiles
    /\ clock = 0
    /\ configured = FALSE
    /\ started = FALSE
    /\ cronRuns = 0
    /\ cronDay = None
    /\ running = "none"
    /\ pc = [c \in Cycles |-> "idle"]
    /\ loc = [c \in Cycles |-> NoLocals]
    /\ hist = [c \in Cycles |-> NoHistory]
    /\ reader = [r \in Readers |-> "idle"]
    /\ records \in BuildInputs
    /\ returned = <<>>

\* one call cache.build_derived_data(records), lines 49-118: the loop over the
\* records, then the publication of the views under the lock; when a float()
\* of the loop raises, the call ends there and the cache is as before
BuildCall ==
    /\ Len(returned) < MaxCalls
    /\ lock = "free"
    /\ IF BuildFails(records)
       THEN /\ cache' = cache
            /\ returned' = Append(returned, [raised |-> TRUE, views |-> Views(cache)])
       ELSE /\ cache' = publish_derived(cache, build_derived_data(records), clock)
            /\ returned' = Append(returned, [raised |-> FALSE, views |-> Views(cache')])
    /\ UNCHANGED <<lock, disk, clock, configured, started, cronRuns, cronDay, running,
                   pc, loc, hist, reader, records>>

BuildNext ==
    \/ BuildCall
    \/ Tick

SpecBuild == BuildInit /\ [][BuildNext]_vars

(***************************************************************************)
(* DataCache.update called directly by threads: the object guards its      *)
(* fields with a threading.Lock, so that its callers may be threads, each  *)
(* free to run whenever it does not wait for the lock.                     *)
(***************************************************************************)
\* the threads that call cache.update
Callers == {"caller1", "caller2"}

\* the number of calls of cache.update in a run
MaxUpdates == 2

\* the arguments of the calls: what fetch_and_parse_data passes at line 154
\* for each response it accepts
UpdateArguments ==
    {o \in {IngestFromRemote(resp) : resp \in Responses} : o.error = ""}

UpdateInit ==
    /\ cache = NewCache
    /\ lock = "free"
    /\ disk = NoFiles
    /\ clock = 0
    /\ configured = FALSE
    /\ started = FALSE
    /\ cronRuns = 0
    /\ cronDay = None
    /\ running = "none"
    /\ pc = [t \in Callers |-> "idle"]
    /\ loc = [t \in Callers |-> NoLocals]
    /\ hist = [t \in Callers |-> NoHistory]
    /\ reader = [r \in Readers |-> "idle"]
    /\ records = <<>>
    /\ returned = <<>>

\* the calls of cache.update that have not returned
InUpdate ==
    {t \in Callers :
        pc[t] \in {"update", "update_locked", "build", "publish", "publish_locked"}}

\* the local variables of a call of update: its arguments, and the views
\* build_derived_data builds (lines 50-105) before it publishes them
UpdateLocals(a) ==
    [latest_date |-> a.latest_date, parsed_data |-> a.parsed_data,
     csv_bytes |-> a.csv_bytes, csv_filename |-> a.csv_filename,
     views |-> None]

\* thread t calls cache.update(latest_date, parsed_data, raw_csv_bytes,
\* original_filename), line 22
UpdateCall(t) ==
    /\ pc[t] = "idle"
    /\ Len(returned) + Cardinality(InUpdate) < MaxUpdates
    /\ \E a \in UpdateArguments : loc' = [loc EXCEPT ![t] = UpdateLocals(a)]
    /\ pc' = [pc EXCEPT ![t] = "update"]
    /\ UNCHANGED <<cache, lock, disk, clock, configured, direct, started, cronRuns,
                   cronDay, running, hist, reader>>

\* thread t calls cache.set_fetching(), cache.set_error(error) or a getter
OtherCall(t) ==
    /\ pc[t] = "idle"
    /\ \E p \in {"set_fetching", "set_error", "get"} : pc' = [pc EXCEPT ![t] = p]
    /\ UNCHANGED <<cache, lock, disk, clock, configured, direct, started, cronRuns,
                   cronDay, running, loc, hist, reader>>

\* thread t enters a "with self._lock": lines 29, 40, 46, 107, 121-150
UpdateAcquire(t) ==
    /\ pc[t] \in {"update", "publish", "set_fetching", "set_error", "get"}
    /\ lock = "free"
    /\ lock' = t
    /\ pc' = [pc EXCEPT ![t] = LockedPc(pc[t])]
    /\ UNCHANGED <<cache, disk, clock, configured, direct, started, cronRuns, cronDay,
                   running, loc, hist, reader>>

\* lines 29-36: the fields of the call are assigned and the lock is released
UpdateAssign(t) ==
    /\ pc[t] = "update_locked"
    /\ lock = t
    /\ cache' = update(cache, loc[t].latest_date, loc[t].parsed_data,
                       loc[t].csv_bytes, loc[t].csv_filename, clock)
    /\ lock' = LockDuringBuild(t)
    /\ pc' = [pc EXCEPT ![t] = "build"]
    /\ UNCHANGED <<disk, clock, configured, direct, started, cronRuns, cronDay, running,
                   loc, hist, reader>>

\* lines 37 and 50-105: the views are computed with the lock free; when a
\* float() raises, update raises with it and the call is over
UpdateBuild(t) ==
    /\ pc[t] = "build"
    /\ IF BuildFails(loc[t].parsed_data)
       THEN /\ pc' = [pc EXCEPT ![t] = "idle"]
            /\ loc' = [loc EXCEPT ![t] = NoLocals]
            /\ returned' = Append(returned, [raised |-> TRUE, views |-> Views(cache)])
       ELSE /\ pc' = [pc EXCEPT ![t] = "publish"]
            /\ loc' = [loc EXCEPT ![t].views = build_derived_data(loc[t].parsed_data)]
            /\ UNCHANGED returned
    /\ UNCHANGED <<cache, lock, disk, clock, configured, started, cronRuns, cronDay,
                   running, hist, reader, records>>

\* lines 107-118: the views are published, and update returns
UpdatePublish(t) ==
    /\ pc[t] = "publish_locked"
    /\ lock = t
    /\ cache' = publish_derived(cache, loc[t].views, clock)
    /\ lock' = "free"
    /\ pc' = [pc EXCEPT ![t] = "idle"]
    /\ loc' = [loc EXCEPT ![t] = NoLocals]
    /\ returned' = Append(returned, [raised |-> FALSE, views |-> Views(cache')])
    /\ UNCHANGED <<disk, clock, configured, started, cronRuns, cronDay, running, hist,
                   reader, records>>

\* lines 46-47, 40-43 and 121-151: the body of the "with self._lock" of
\* set_fetching, of set_error and of a getter, and the return
OtherReturn(t) ==
    /\ pc[t] \in {"set_fetching_locked", "set_error_locked", "get_locked"}
    /\ lock = t
    /\ cache' = CASE pc[t] = "set_fetching_locked" -> set_fetching(cache)
                  [] pc[t] = "set_error_locked" ->
                         set_error(cache, ErrorMsg(NoCsvDetail), clock)
                  [] pc[t] = "get_locked" -> cache
    /\ lock' = "free"
    /\ pc' = [pc EXCEPT ![t] = "idle"]
    /\ UNCHANGED <<disk, clock, configured, direct, started, cronRuns, cronDay, running,
                   loc, hist, reader>>

\* the steps of the threads
LockNext ==
    \/ \E t \in Callers :
         \/ UpdateCall(t)
         \/ OtherCall(t)
         \/ UpdateAcquire(t)
         \/ UpdateAssign(t)
         \/ UpdateBuild(t)
         \/ UpdatePublish(t)
         \/ OtherReturn(t)
    \/ \E r \in Readers : ReaderAcquire(r) \/ ReaderReturn(r)

UpdateNext ==
    \/ LockNext
    \/ Tick

SpecUpdate == UpdateInit /\ [][UpdateNext]_vars

\* the scheduling of the threads: a thread inside a "with self._lock" runs on
\* to its end, and a thread that waits for the lock while the lock gets free
\* again and again takes it at last
LockFairness ==
    /\ \A t \in Callers :
         /\ SF_vars(UpdateAcquire(t))
         /\ WF_vars(UpdateAssign(t))
         /\ WF_vars(UpdatePublish(t))
         /\ WF_vars(OtherReturn(t))
    /\ \A r \in Readers : WF_vars(ReaderReturn(r))

\* the threads within one day
SpecLock == UpdateInit /\ [][LockNext]_vars /\ LockFairness

(***************************************************************************)
(* The claims.                                                             *)
(***************************************************************************)
\* the views of ch are the ones build_derived_data gives for its parsed_data
\* (or ch is the cache as constructed)
Coherent(ch) ==
    \/ Data(ch) = Data(NewCache)
    \/ /\ ~BuildFails(ch.parsed_data)
       /\ LET views == build_derived_data(ch.parsed_data)
          IN  /\ ch.stats_data.total = Len(ch.parsed_data)
              /\ ch.list_data = views.list_data
              /\ ch.listmap_data = views.listmap_data
              /\ ch.details_map = views.details_map
              /\ ch.stats_data.by_provincia = views.stats.by_provincia

\* C1: whenever the cache lock is free (so that a reader can take it), the raw
\* data and the derived views are those of one and the same cycle:
\* len(parsed_data) is stats_data.total and the views are built from parsed_data.
C1_SnapshotCoherent ==
    lock = "free" => Coherent(cache)

\* C2: a cycle that ended with status "error" has changed nothing of what
\* readers obtain as data.
C2_ErrorKeepsData ==
    \A c \in Cycles : hist[c].outcome = "error" => ~hist[c].changed

\* C3: set_fetching changes fetch_status alone, and set_error changes
\* fetch_status, last_error and last_fetch_time alone: the data fields are the
\* same after as before.
C3_StatusWritesKeepData ==
    [][\A c \in Cycles :
        /\ (pc[c] = "set_fetching_locked" /\ pc'[c] = "load_disk")
              => cache' = [cache EXCEPT !.fetch_status = "fetching"]
        /\ (pc[c] = "set_error_locked" /\ pc'[c] = "alert")
              => /\ Data(cache') = Data(cache)
                 /\ cache'.fetch_status = "error"
                 /\ cache'.last_error = loc[c].error_msg
                 /\ cache'.last_fetch_time = <<clock>>]_vars

\* C3 witness: set_error has acted on a cache that holds records
C3_Witness ==
    \E c \in Cycles :
        /\ pc[c] = "alert"
        /\ cache.fetch_status = "error"
        /\ cache.parsed_data # <<>>
        /\ cache.list_data # <<>>

\* C4: the status writes of a cycle are "fetching", then one of "success" and
\* "error", and a cycle that has returned has made exactly these two.
C4_StatusSequence ==
    \A c \in Cycles :
        /\ hist[c].writes \in {<<>>, <<"fetching">>, <<"fetching", "success">>,
                               <<"fetching", "error">>}
        /\ hist[c].outcome # "none" => Len(hist[c].writes) = 2

\* C5: at most one cycle is in flight at any time.
C5_OneCycleInFlight == Cardinality({c \in Cycles : InFlight(c)}) <= 1

\* C6: fetch_and_parse_data returns normally whatever step fails: a cycle that
\* is over has returned, none has let an exception out.
C6_ReturnsNormally ==
    \A c \in Cycles :
        /\ hist[c].exit # "raised"
        /\ pc[c] = "done" => hist[c].exit \in {"returned", "none"}

\* C6 witness: a cycle is over whose remote ingestion failed and whose alert
\* could not be delivered either
C6_Witness ==
    \E c \in Cycles :
        /\ pc[c] = "done"
        /\ hist[c].outcome = "error"
        /\ hist[c].alertFailed
        /\ hist[c].exit = "returned"

\* C7: a cycle that ended with status "error" has called the alert sender
\* exactly once, after set_error, with the message last_error then held, which
\* starts with "Failed to fetch/parse data"; a cycle that ended with "success"
\* has not called it.
C7_AlertOncePerError ==
    \A c \in Cycles :
        /\ hist[c].outcome = "error" =>
              /\ Len(hist[c].alerts) = 1
              /\ hist[c].alerts[1].message[1] = ErrorPrefix
              /\ hist[c].alerts[1].last_error = hist[c].alerts[1].message
              /\ hist[c].alerts[1].fetch_status = "error"
        /\ hist[c].outcome = "success" => hist[c].alerts = <<>>
        /\ Len(hist[c].alerts) <= 1

\* C7 witness: a cycle ended with "error" and its one alert is recorded
C7_Witness ==
    \E c \in Cycles : hist[c].outcome = "error" /\ Len(hist[c].alerts) = 1

\* C8: a failed read of today's cached payload sends the cycle to the remote
\* fetch as a missing file does; a failed write or a failed cleanup after the
\* publication ends the cycle with status "success", no error message, the
\* published data in place and no alert.
C8_DiskFailuresAreNotErrors ==
    [][\A c \in Cycles :
        /\ (pc[c] = "load_disk" /\ hist'[c].readFailed)
              => /\ pc'[c] = "fetching"
                 /\ cache' = cache
                 /\ hist'[c].alerts = <<>>
        /\ (pc[c] = "save" /\ pc'[c] # "save"
                /\ (hist'[c].saved \in {"refused", "torn"} \/ hist'[c].cleanupFailed))
              => /\ pc'[c] = "done"
                 /\ hist'[c].outcome = "success"
                 /\ hist'[c].alerts = <<>>
                 /\ cache' = cache
                 /\ cache'.fetch_status = "success"
                 /\ cache'.last_error = None
                 /\ cache'.parsed_data = loc[c].parsed_data]_vars

\* C8 witness: a cycle whose read of the cached payload failed and whose write
\* of the fetched one failed too has ended with "success"
C8_Witness ==
    \E c \in Cycles :
        /\ hist[c].readFailed
        /\ hist[c].saved \in {"refused", "torn"}
        /\ hist[c].outcome = "success"
        /\ cache.fetch_status = "success"

\* the date in the name of a disk cache file, None for any other file
FileDate(filename) ==
    IF StartsWith(filename, FibercopPrefix)
    THEN Strptime(Remove(Remove(filename, FibercopPrefix), CsvSuffix))
    ELSE None

\* C9: after a cycle that published data date D, wrote its payload and ran the
\* cleanup (with no disk failure and no other cycle beside it), the disk cache
\* holds no payload dated before D and holds the payload of D.
C9_RetentionByDataDate ==
    \A c \in Cycles :
        (/\ hist[c].outcome = "success"
         /\ hist[c].saved = "written"
         /\ ~hist[c].cleanupFailed
         /\ ~hist[c].overlapped)
        => /\ \A f \in DOMAIN disk :
                FileDate(f) # None => ~DateLT(FileDate(f), hist[c].dataDate)
           /\ get_cache_filename(hist[c].dataDate) \in DOMAIN disk

\* C10: a remote ingestion of data date D writes its payload under the name
\* made from D, which is also the date its cleanup is run for.
C10_PersistedUnderDataDate ==
    \A c \in Cycles :
        hist[c].saved = "written"
            => get_cache_filename(hist[c].savedDate) = get_cache_filename(hist[c].dataDate)

\* the names load_csv_from_disk asks for on the days of a run
LoadableNames == {get_cache_filename(Today(t)) : t \in 0..MaxDays}

\* the payloads a source provides whole: the members of the archives and the
\* dated files a run finds on disk when it starts
WholePayloads ==
    UNION {{a.members[i].bytes : i \in 1..Len(a.members)} : a \in Archives}
        \cup UNION {{d[f] : f \in {g \in DOMAIN d : FileDate(g) # None}} :
                        d \in InitialDisks}

\* C11: the disk cache never holds, under a name load_csv_from_disk accepts, a
\* payload cut short by a write that did not finish, and no cycle served from
\* the disk cache is about to publish one.
C11_NoTruncatedPayload ==
    /\ \A f \in DOMAIN disk \cap LoadableNames : disk[f] \in WholePayloads
    /\ \A c \in Cycles :
          (pc[c] = "update" /\ loc[c].path = "disk")
              => loc[c].csv_bytes \in WholePayloads

\* C12: a cycle holds the cache lock only inside the four blocks that assign
\* cache fields (set_fetching, update, the publication of the views, set_error)
\* and never across a suspension: not while it reads the disk, waits for the
\* archive, parses, builds the views, writes the disk or sends the alert.
C12_LockOnlyWhileAssigning ==
    \A c \in Cycles :
        /\ lock = c =>
              /\ pc[c] \in {"set_fetching_locked", "update_locked", "publish_locked",
                            "set_error_locked"}
              /\ running = c
        /\ pc[c] \in {"idle", "load_disk", "fetching", "build", "save", "alert",
                      "alert_wait", "done"} => lock # c

\* C12 witness: a reader is inside a getter while a cycle is at its disk write,
\* and another state has a reader inside a getter while a cycle builds
C12_Witness ==
    \E c \in Cycles, r \in Readers :
        /\ pc[c] \in {"save", "build"}
        /\ reader[r] = "locked"
        /\ lock = r

\* C13: after every call of build_derived_data on records, list_data,
\* listmap_data and details_map have len(records) entries each, stats_data.total
\* is len(records), entry i of list_data and of listmap_data has id i and
\* details_map[i] is records[i], for i in 0..len(records)-1.
C13_ViewsMatchRecords ==
    \A k \in 1..Len(returned) :
        LET v == returned[k].views
            n == Len(records)
        IN  /\ ~returned[k].raised
            /\ Len(v.list_data) = n
            /\ Len(v.listmap_data) = n
            /\ DOMAIN v.details_map = 0..(n - 1)
            /\ v.stats_data.total = n
            /\ \A i \in 0..(n - 1) :
                  /\ v.list_data[i + 1].id = i
                  /\ v.listmap_data[i + 1][1] = i
                  /\ v.details_map[i] = records[i + 1]

\* float(0.0)
Zero == <<0, 0>>

\* the field is missing, None, the empty text or text that is no number
BadCoordinate(record, key) ==
    key \notin DOMAIN record \/ Float(record[key]) = None

\* C14: every call of build_derived_data completes, and a record whose
\* LATITUDINE (LONGITUDINE) is missing, empty or not numeric has lat (lon) 0.0
\* in its list entry and in its compact entry.
C14_BadCoordinateIsZero ==
    \A k \in 1..Len(returned) :
        LET v == returned[k].views
        IN  /\ ~returned[k].raised
            /\ \A i \in 1..Len(records) :
                  /\ BadCoordinate(records[i], "LATITUDINE")
                        => /\ v.list_data[i].lat = Zero
                           /\ v.listmap_data[i][2] = Zero
                  /\ BadCoordinate(records[i], "LONGITUDINE")
                        => /\ v.list_data[i].lon = Zero
                           /\ v.listmap_data[i][3] = Zero

\* the PROVINCIA of record i as build_derived_data reads it
ProvinciaOf(i) == Get(records[i], "PROVINCIA", <<>>)

\* the provinces that occur in records
Provinces == {ProvinciaOf(i) : i \in {j \in 1..Len(records) : Truthy(ProvinciaOf(j))}}

\* the number of records of province p
ProvinceCount(p) == Cardinality({i \in 1..Len(records) : ProvinciaOf(i) = p})

RECURSIVE SumProvinceCounts(_)
SumProvinceCounts(ps) ==
    IF ps = {} THEN 0
    ELSE LET p == CHOOSE q \in ps : TRUE
         IN  ProvinceCount(p) + SumProvinceCounts(ps \ {p})

\* what C15 says of one by_provincia
ProvinciaBreakdown(by_provincia) ==
    LET named   == Keys(by_provincia) \ {OtherKey}
        leftOut == Provinces \ named
    IN  /\ SumCounts(by_provincia)
              = Cardinality({i \in 1..Len(records) : Truthy(ProvinciaOf(i))})
        /\ Cardinality(named) <= TopProvinces
        /\ \A p \in named :
              /\ p \in Provinces
              /\ DictGet(by_provincia, p) = ProvinceCount(p)
              /\ \A q \in leftOut : ProvinceCount(q) <= ProvinceCount(p)
        /\ OtherKey \in Keys(by_provincia) <=> Cardinality(Provinces) > TopProvinces
        /\ OtherKey \in Keys(by_provincia)
              => DictGet(by_provincia, OtherKey) = SumProvinceCounts(leftOut)

\* C15, as the code has it: when no record has the PROVINCIA "OTHER", the
\* values of by_provincia sum to the number of records with a non-empty
\* PROVINCIA, at most 20 provinces are listed by name, each with its count and
\* none with a smaller count than a province left out, and "OTHER" is there if
\* and only if more than 20 provinces occur, with the counts of those left out.
C15_ProvinciaBreakdown ==
    \A k \in 1..Len(returned) :
        (~returned[k].raised /\ OtherKey \notin Provinces)
            => ProvinciaBreakdown(returned[k].views.stats_data.by_provincia)

\* C15 witness: a build of more than 20 provinces, none written OTHER, in
\* which a province left out has the count of one that is listed
C15_Witness ==
    \E k \in 1..Len(returned) :
        /\ ~returned[k].raised
        /\ OtherKey \notin Provinces
        /\ Cardinality(Provinces) > TopProvinces
        /\ Len(records) > Cardinality(Provinces) + 1
        /\ OtherKey \in Keys(returned[k].views.stats_data.by_provincia)

\* C15 as stated, for every build: the same with no condition on the
\* provinces' names.
C15_ProvinciaBreakdownAnyName ==
    \A k \in 1..Len(returned) :
        ~returned[k].raised
            => ProvinciaBreakdown(returned[k].views.stats_data.by_provincia)

\* the views with the time of the build left out of the statistics
Untimed(v) == [v EXCEPT !.stats_data.updated_at = None]

\* C16, as the code has it: two calls of build_derived_data on the same
\* records both raise or both complete, and then they leave the same list
\* entries, compact entries, detail index and statistics, but for
\* stats_data.updated_at, which is the time of each call.
C16_BuildIdempotent ==
    \A j, k \in 1..Len(returned) :
        /\ returned[j].raised = returned[k].raised
        /\ Untimed(returned[j].views) = Untimed(returned[k].views)

\* C16 witness: two completed calls on the same non-empty records, at
\* different times
C16_Witness ==
    /\ Len(returned) >= 2
    /\ records # <<>>
    /\ ~returned[1].raised
    /\ ~returned[2].raised
    /\ returned[1].views.stats_data.updated_at # returned[2].views.stats_data.updated_at

\* C16 as stated: two calls on the same records leave the same output in
\* every component, every field of the statistics included.
C16_BuildIdenticalOutput ==
    \A j, k \in 1..Len(returned) : returned[j] = returned[k]

\* the name ends in ".csv" and contains 8 consecutive digits
DatedCsvName(name) == EndsWith(name, CsvSuffix) /\ Search8Digits(name) # <<>>

\* entry i is the first of the archive, in archive order, with such a name
FirstDatedEntry(zip, i) ==
    /\ i \in 1..Len(zip.members)
    /\ DatedCsvName(zip.members[i].name)
    /\ \A j \in 1..(i - 1) : ~DatedCsvName(zip.members[j].name)

\* C17: what a cycle on the remote path publishes is the bytes, the name and
\* the date in the name of the first entry of the answered archive whose name
\* ends in ".csv" and has 8 consecutive digits; an archive with no such entry
\* makes the cycle end in error with the message "No CSV file with 8-digit
\* date found in archive", having changed neither the cache data nor the disk.
C17_FirstDatedEntry ==
    /\ [](/\ \A resp \in Responses :
                (/\ resp.kind = "body"
                 /\ resp.zip.ok
                 /\ ~\E i \in 1..Len(resp.zip.members) : FirstDatedEntry(resp.zip, i))
                => IngestFromRemote(resp).error = NoCsvDetail
          /\ \A c \in Cycles :
                (/\ hist[c].alerts # <<>>
                 /\ hist[c].alerts[1].message = ErrorMsg(NoCsvDetail))
                => /\ ~hist[c].changed
                   /\ hist[c].saved = "no"
                   /\ hist[c].outcome \in {"none", "error"})
    /\ [][\A c \in Cycles :
            /\ (pc[c] = "update_locked" /\ pc'[c] = "build" /\ loc[c].path = "remote")
                  => \E resp \in Responses :
                       \E i \in 1..Len(resp.zip.members) :
                          /\ FirstDatedEntry(resp.zip, i)
                          /\ cache'.raw_csv_bytes = resp.zip.members[i].bytes
                          /\ cache'.original_filename = resp.zip.members[i].name
                          /\ cache'.latest_date =
                                DateFromDigits(Search8Digits(resp.zip.members[i].name))
                          /\ cache'.parsed_data = ParseCsv(resp.zip.members[i].bytes)
            /\ (pc[c] = "fetching" /\ pc'[c] = "set_error")
                  => /\ cache' = cache
                     /\ disk' = disk]_vars

\* C17 witness: a cycle has published the second entry of the archive whose
\* first entry is notes.csv and whose third is dated too
C17_Witness ==
    \E c \in Cycles :
        /\ pc[c] = "build"
        /\ loc[c].path = "remote"
        /\ cache.original_filename = DataName(<<2024, 1, 3>>)
        /\ cache.raw_csv_bytes = OneBytes
        /\ cache.latest_date = <<2024, 1, 3>>

\* C18: a cycle that finds a readable payload under today's name in the disk
\* cache goes on with that payload and makes no request; a cycle makes the
\* request only when the file is missing or its read failed, and a cycle
\* served from the disk never requests or saves afterwards.
C18_DiskFirst ==
    /\ [](\A c \in Cycles :
            /\ loc[c].path = "disk" => pc[c] \notin {"fetching", "save"}
            /\ pc[c] \in {"fetching", "save"} => loc[c].path = "remote")
    /\ [][\A c \in Cycles :
            (pc[c] = "load_disk" /\ pc'[c] # "load_disk") =>
                LET f == get_cache_filename(Today(clock))
                IN  /\ (f \in DOMAIN disk /\ ~hist'[c].readFailed)
                          => /\ pc'[c] \in {"update", "set_error"}
                             /\ loc'[c].path = "disk"
                             /\ running' = c
                             /\ pc'[c] = "update"
                                   => /\ loc'[c].csv_bytes = disk[f]
                                      /\ loc'[c].parsed_data = ParseCsv(disk[f])
                    /\ pc'[c] = "fetching"
                          => /\ f \notin DOMAIN disk \/ hist'[c].readFailed
                             /\ loc'[c].path = "remote"]_vars

\* C18 witness: a cycle has published the payload it found on disk for today
C18_Witness ==
    \E c \in Cycles :
        /\ pc[c] = "build"
        /\ loc[c].path = "disk"
        /\ get_cache_filename(Today(clock)) \in DOMAIN disk
        /\ cache.raw_csv_bytes = disk[get_cache_filename(Today(clock))]
        /\ cache.parsed_data # <<>>

\* C20: when a remote cycle that published records R, bytes B and data date D
\* has written its payload, what a cycle of the same day obtains from the disk
\* cache for publication is again R, B and D.
C20_SaveThenReload ==
    [][\A c \in Cycles :
          (pc[c] = "save" /\ hist'[c].saved = "written") =>
              LET today  == loc[c].today
                  reload == IngestFromDisk(load_csv_from_disk(disk', today, TRUE), today)
              IN  /\ reload.error = ""
                  /\ reload.parsed_data = loc[c].parsed_data
                  /\ reload.csv_bytes = loc[c].csv_bytes
                  /\ reload.latest_date = loc[c].latest_date]_vars

\* C19: a cycle that has set the status to "fetching" leaves it at "success"
\* or "error" when it ends, also when it is abandoned part-way: whenever no
\* cycle is under way, fetch_status is not "fetching".
C19_FetchingEnds ==
    (\A c \in Cycles : pc[c] \in {"idle", "done", "cancelled"})
        => cache.fetch_status # "fetching"

\* the four raw fields of ch are the arguments of one call of update
OfOneCall(ch) ==
    \E a \in UpdateArguments :
        /\ ch.latest_date = a.latest_date
        /\ ch.parsed_data = a.parsed_data
        /\ ch.raw_csv_bytes = a.csv_bytes
        /\ ch.original_filename = a.csv_filename

\* C21: once every started update() call has returned normally and none is in
\* progress, the published views are the ones built from the published
\* parsed_data (stats_data.total is len(parsed_data), details_map[i] is
\* parsed_data[i]) and latest_date, raw_csv_bytes and original_filename are
\* those of the same call, also when calls have overlapped in time.
C21_ViewsOfPublishedData ==
    (/\ InUpdate = {}
     /\ returned # <<>>
     /\ \A i \in 1..Len(returned) : ~returned[i].raised)
        => /\ OfOneCall(cache)
           /\ cache.stats_data.total = Len(cache.parsed_data)
           /\ LET views == build_derived_data(cache.parsed_data)
              IN  /\ cache.details_map = views.details_map
                  /\ cache.list_data = views.list_data
                  /\ cache.listmap_data = views.listmap_data

\* a thread waits at one of these for the lock, and holds it at one of those
WaitingPcs == {"update", "publish", "set_fetching", "set_error", "get"}

HoldingPcs == {LockedPc(p) : p \in WaitingPcs}

=============================================================================
